---- MODULE Spec2Model ----
(***************************************************************************)
(* The lifecycle of KaCommonRecipe (conanfile.py).                         *)
(*                                                                         *)
(* The recipe is an object whose methods are called, one at a time, by a   *)
(* driving process.  The state is the recipe object's fields (settings,    *)
(* options, conf, requirement list, cpp_info), the folders its methods     *)
(* write, the log of external build-tool verbs it has invoked, and the     *)
(* position of the call in progress (pc).  A method that makes several     *)
(* blocking external calls is one action per call, chained by pc, so that  *)
(* the states between two calls exist.  An exception leaves a method at    *)
(* the statement that raised it: no method of the recipe has a handler.    *)
(*                                                                         *)
(* The driving process is not part of the recipe.  It is modelled as the   *)
(* design describes it: it calls the methods in one fixed order, one at a  *)
(* time, and stops at the first exception.  It may call package() without  *)
(* having called build(), as it does to package a tree built beforehand.   *)
(* The option values it supplies are in place when config_options runs.    *)
(***************************************************************************)
EXTENDS Integers, Sequences, FiniteSets, TLC

VARIABLES
    os,             \* self.settings.os
    cppstd,         \* self.settings.compiler.cppstd, 0 when not defined
    in_shared,      \* the value of shared the driving process supplied
    in_fPIC,        \* the value of fPIC the driving process supplied
    skip_test,      \* conf entry tools.build:skip_test
    flow,           \* whether the driving process calls build() before package()
    recipe_folder,  \* files present in self.recipe_folder
    options,        \* self.options: option name -> value, for the names present
    passes,         \* completed runs of config_options followed by configure
    resolved,       \* the option set each such run ended with
    requires,       \* requirements declared so far
    export_folder,  \* files in self.export_sources_folder (the source folder)
    folders,        \* the layout declared by layout()
    generated,      \* generator file sets written so far, in order
    calls,          \* external build-tool verbs invoked so far, in order
    build_tree,     \* artifacts in the build folder
    package_folder, \* content of self.package_folder
    cpp_info,       \* self.cpp_info
    pc,             \* the statement the lifecycle is at
    err             \* the exception that ended the lifecycle, or "none"

vars == << os, cppstd, in_shared, in_fPIC, skip_test, flow, recipe_folder,
           options, passes, resolved, requires, export_folder, folders,
           generated, calls, build_tree, package_folder, cpp_info, pc, err >>

inputs == << os, cppstd, in_shared, in_fPIC, skip_test, flow, recipe_folder >>

(***************************************************************************)
(* Bounds and input domains.                                               *)
(***************************************************************************)
MaxResolvePasses == 2

OperatingSystems == {"Windows", "Linux", "Macos"}

\* compiler.cppstd values; 0 stands for a profile that defines none
CppStds == {0, 98, 17, 20, 23}

Supplied == {"unset", "True", "False"}

Flows == {"create", "export_pkg"}

\* Files of the recipe folder, as sequences of path components: those the
\* recipe declares for export, any of which may be missing, and one it does not
DeclaredFiles == {<< "CMakeLists.txt" >>, << "cmake", "ka_common-config.cmake" >>,
                  << "include", "common.hpp" >>, << "src", "common.cpp" >>}

OtherFiles == {<< "README.md" >>}

\* What a successful build step leaves in the build folder
Artifacts == {<< "lib", "ka_common" >>}

(***************************************************************************)
(* Class attributes.                                                       *)
(***************************************************************************)
\* options = {"shared": [True, False], "fPIC": [True, False]}
OptionDomain == [shared |-> BOOLEAN, fPIC |-> BOOLEAN]

default_options == [shared |-> FALSE, fPIC |-> TRUE]

\* A supplied value overrides the default of the same option.
Override(dflt, given) ==
    IF given = "unset" THEN dflt ELSE (given = "True")

InitialOptions(sh, pic) ==
    [shared |-> Override(default_options.shared, sh),
     fPIC   |-> Override(default_options.fPIC, pic)]

(***************************************************************************)
(* Options.rm_safe: the option is removed when present; nothing happens    *)
(* when it is absent.                                                      *)
(***************************************************************************)
RmSafe(opts, k) ==
    [x \in (DOMAIN opts) \ {k} |-> opts[x]]

\* Mutant: del self.options.<k>, which raises when the option is absent
DelRaises(opts, k) == k \notin DOMAIN opts

\* rm_safe raises for no option set.
RmSafeRaises(opts, k) == FALSE

\* Mutant: static linkage forced on Windows along with the removal
ConfigOptionsForcesStatic(o, opts) ==
    IF o = "Windows"
    THEN [x \in (DOMAIN opts) \ {"fPIC"} |-> IF x = "shared" THEN FALSE ELSE opts[x]]
    ELSE opts

\* Mutant: the operating system compared with a misspelt name
ConfigOptionsMisspelt(o, opts) ==
    IF o = "windows" THEN RmSafe(opts, "fPIC") ELSE opts

\* config_options as a function of the option set
ConfigOptionsOf(o, opts) ==
    IF o = "Windows" THEN RmSafe(opts, "fPIC") ELSE opts

\* Mutant: fPIC switched off instead of removed
ConfigureSetsFalse(opts) ==
    IF opts["shared"] /\ "fPIC" \in DOMAIN opts
    THEN [opts EXCEPT !["fPIC"] = FALSE]
    ELSE opts

\* Mutant: the test of shared inverted
ConfigureInverted(opts) ==
    IF ~ opts["shared"] THEN RmSafe(opts, "fPIC") ELSE opts

\* configure as a function of the option set
ConfigureOf(opts) ==
    IF opts["shared"] THEN RmSafe(opts, "fPIC") ELSE opts

(***************************************************************************)
(* self.requires / self.test_requires: a reference "name/version" is       *)
(* declared with the role its declaring call gives it.                     *)
(***************************************************************************)
Requirement(ref, role) ==
    [name |-> ref[1], version |-> ref[2], role |-> role]

Requires(reqs, ref) == Append(reqs, Requirement(ref, "runtime"))

\* Mutant: the test framework declared with self.requires
TestRequiresAsRequires(reqs, ref) == Append(reqs, Requirement(ref, "runtime"))

TestRequires(reqs, ref) == Append(reqs, Requirement(ref, "test"))

(***************************************************************************)
(* conan.tools.files.copy: every file of src the pattern matches is put in *)
(* dst; a pattern that matches nothing copies nothing and raises nothing.  *)
(* A trailing "*" matches whatever lies below the directory.               *)
(***************************************************************************)
Matches(pattern, f) ==
    /\ Len(f) >= Len(pattern)
    /\ \A i \in 1..Len(pattern) : pattern[i] = "*" \/ pattern[i] = f[i]
    /\ (Len(f) > Len(pattern) => pattern[Len(pattern)] = "*")

Copy(pattern, src, dst) ==
    dst \cup {f \in src : Matches(pattern, f)}

(***************************************************************************)
(* check_min_cppstd(self, "20"): standards are compared as years, and a    *)
(* configuration that defines no cppstd is invalid.                        *)
(***************************************************************************)
MinCppstd == 20

CppYear(v) == IF v = 98 THEN 1998 ELSE 2000 + v

\* Mutant: the standards compared as plain numbers
CheckMinCppstdPlain(current, minimum) ==
    current = 0 \/ current < minimum

CheckMinCppstdRaises(current, minimum) ==
    current = 0 \/ CppYear(current) < CppYear(minimum)

\* self.conf.get(key, default=...)
ConfGet(value, dflt) ==
    IF value = "unset" THEN dflt ELSE (value = "True")

\* One invocation of an external build-tool verb and how it exited
Call(verb, args, ok) == [verb |-> verb, args |-> args, ok |-> ok]

\* self.source_folder: the exported sources, or the user's tree when the
\* package is made from a local build
SourceFolder ==
    IF flow = "create" THEN export_folder ELSE recipe_folder

(***************************************************************************)
(* The lifecycle.                                                          *)
(***************************************************************************)
\* The order in which the driving process calls the methods
Lifecycle == << "config_options", "configure", "requirements",
                "build_requirements", "export_sources", "validate", "layout",
                "generate", "build", "package", "package_info", "done" >>

\* What the driving process calls when the method has returned
StageAfter(method) ==
    IF method = "generate" /\ flow = "export_pkg"
    THEN "package"
    ELSE Lifecycle[1 + CHOOSE i \in 1..Len(Lifecycle) : Lifecycle[i] = method]

\* The lifecycle is at the statement and no exception has ended it
At(label) == pc = label /\ err = "none"

Init ==
    /\ os \in OperatingSystems
    /\ cppstd \in CppStds
    /\ in_shared \in Supplied
    /\ in_fPIC \in Supplied
    /\ skip_test \in Supplied
    /\ flow \in Flows
    /\ recipe_folder \in {d \cup OtherFiles : d \in SUBSET DeclaredFiles}
    /\ options = InitialOptions(in_shared, in_fPIC)
    /\ passes = 0
    /\ resolved = << >>
    /\ requires = << >>
    /\ export_folder = {}
    /\ folders = "unset"
    /\ generated = << >>
    /\ calls = << >>
    /\ build_tree \in (IF flow = "create" THEN {{}} ELSE {{}, Artifacts})
    /\ package_folder = {}
    /\ cpp_info = [builddirs |-> << >>, cmake_target_name |-> "", libs |-> << >>]
    /\ pc = "config_options"
    /\ err = "none"

\* def config_options(self)
ConfigOptions ==
    /\ At("config_options")
    /\ IF os = "Windows" /\ RmSafeRaises(options, "fPIC")
       THEN /\ err' = "ConanException"
            /\ UNCHANGED << options, pc >>
       ELSE /\ options' = ConfigOptionsOf(os, options)
            /\ pc' = StageAfter("config_options")
            /\ err' = err
    /\ UNCHANGED << inputs, passes, resolved, requires, export_folder, folders,
                    generated, calls, build_tree, package_folder, cpp_info >>

\* def configure(self).  The driving process then goes on to requirements(),
\* or runs the two option methods once more on the option set they produced.
Configure ==
    /\ At("configure")
    /\ IF options["shared"] /\ RmSafeRaises(options, "fPIC")
       THEN /\ err' = "ConanException"
            /\ UNCHANGED << options, passes, resolved, pc >>
       ELSE /\ options' = ConfigureOf(options)
            /\ passes' = passes + 1
            /\ resolved' = Append(resolved, options')
            /\ \/ pc' = StageAfter("configure")
               \/ passes' < MaxResolvePasses /\ pc' = "config_options"
            /\ err' = err
    /\ UNCHANGED << inputs, requires, export_folder, folders, generated, calls,
                    build_tree, package_folder, cpp_info >>

\* def requirements(self)
Requirements ==
    /\ At("requirements")
    /\ requires' = Requires(requires, << "fmt", "9.1.0" >>)
    /\ pc' = StageAfter("requirements")
    /\ UNCHANGED << inputs, options, passes, resolved, export_folder, folders,
                    generated, calls, build_tree, package_folder, cpp_info, err >>

\* def build_requirements(self)
BuildRequirements ==
    /\ At("build_requirements")
    /\ requires' = TestRequires(requires, << "gtest", "1.17.0" >>)
    /\ pc' = StageAfter("build_requirements")
    /\ UNCHANGED << inputs, options, passes, resolved, export_folder, folders,
                    generated, calls, build_tree, package_folder, cpp_info, err >>

\* def export_sources(self)
ExportSources ==
    /\ At("export_sources")
    /\ export_folder' =
         Copy(<< "src", "*" >>, recipe_folder,
           Copy(<< "include", "*" >>, recipe_folder,
             Copy(<< "cmake", "*" >>, recipe_folder,
               Copy(<< "CMakeLists.txt" >>, recipe_folder, export_folder))))
    /\ pc' = StageAfter("export_sources")
    /\ UNCHANGED << inputs, options, passes, resolved, requires, folders,
                    generated, calls, build_tree, package_folder, cpp_info, err >>

\* def validate(self)
Validate ==
    /\ At("validate")
    /\ IF CheckMinCppstdRaises(cppstd, MinCppstd)
       THEN err' = "ConanInvalidConfiguration" /\ pc' = pc
       ELSE err' = err /\ pc' = StageAfter("validate")
    /\ UNCHANGED << inputs, options, passes, resolved, requires, export_folder,
                    folders, generated, calls, build_tree, package_folder,
                    cpp_info >>

\* def layout(self)
Layout ==
    /\ At("layout")
    /\ folders' = "cmake_layout"
    /\ pc' = StageAfter("layout")
    /\ UNCHANGED << inputs, options, passes, resolved, requires, export_folder,
                    generated, calls, build_tree, package_folder, cpp_info, err >>

\* Mutant: a failure of the dependency generator caught and ignored
GenerateDepsSwallowed ==
    /\ At("generate")
    /\ \E ok \in BOOLEAN :
         generated' = (IF ok THEN Append(generated, "CMakeDeps") ELSE generated)
    /\ pc' = "generate_tc"
    /\ UNCHANGED << inputs, options, passes, resolved, requires, export_folder,
                    folders, calls, build_tree, package_folder, cpp_info, err >>

\* generate(): deps = CMakeDeps(self); deps.generate()
GenerateDeps ==
    /\ At("generate")
    /\ \E ok \in BOOLEAN :
         IF ok
         THEN /\ generated' = Append(generated, "CMakeDeps")
              /\ pc' = "generate_tc"
              /\ err' = err
         ELSE /\ err' = "ConanException"
              /\ UNCHANGED << generated, pc >>
    /\ UNCHANGED << inputs, options, passes, resolved, requires, export_folder,
                    folders, calls, build_tree, package_folder, cpp_info >>

\* Mutant: generate() switching fPIC on for the toolchain
GenerateToolchainSetsFPIC ==
    /\ At("generate_tc")
    /\ \E ok \in BOOLEAN :
         IF ok
         THEN /\ generated' = Append(generated, "CMakeToolchain")
              /\ options' = [x \in (DOMAIN options) \cup {"fPIC"} |->
                                IF x = "fPIC" THEN TRUE ELSE options[x]]
              /\ pc' = StageAfter("generate")
              /\ err' = err
         ELSE /\ err' = "ConanException"
              /\ UNCHANGED << generated, options, pc >>
    /\ UNCHANGED << inputs, passes, resolved, requires, export_folder,
                    folders, calls, build_tree, package_folder, cpp_info >>

\* generate(): tc = CMakeToolchain(self); tc.generate().  When generate()
\* has returned the driving process calls build(), or package() directly
\* when it packages a tree built beforehand.
GenerateToolchain ==
    /\ At("generate_tc")
    /\ \E ok \in BOOLEAN :
         IF ok
         THEN /\ generated' = Append(generated, "CMakeToolchain")
              /\ pc' = StageAfter("generate")
              /\ err' = err
         ELSE /\ err' = "ConanException"
              /\ UNCHANGED << generated, pc >>
    /\ UNCHANGED << inputs, options, passes, resolved, requires, export_folder,
                    folders, calls, build_tree, package_folder, cpp_info >>

\* Mutant: the exit status of the configure step not looked at
BuildConfigureUnchecked ==
    /\ At("build")
    /\ \E ok \in BOOLEAN :
         calls' = Append(calls, Call("configure", << >>, ok))
    /\ pc' = "build_build"
    /\ UNCHANGED << inputs, options, passes, resolved, requires, export_folder,
                    folders, generated, build_tree, package_folder, cpp_info, err >>

\* build(): cmake = CMake(self); cmake.configure()
BuildConfigure ==
    /\ At("build")
    /\ \E ok \in BOOLEAN :
         /\ calls' = Append(calls, Call("configure", << >>, ok))
         /\ IF ok THEN pc' = "build_build" /\ err' = err
                  ELSE pc' = pc /\ err' = "ConanException"
    /\ UNCHANGED << inputs, options, passes, resolved, requires, export_folder,
                    folders, generated, build_tree, package_folder, cpp_info >>

\* Mutant: a failed build step tried once more
BuildBuildRetried ==
    /\ At("build_build")
    /\ \E ok \in BOOLEAN :
         /\ calls' = Append(calls, Call("build", << >>, ok))
         /\ IF ok
            THEN /\ build_tree' = build_tree \cup Artifacts
                 /\ pc' = "build_ctest"
                 /\ err' = err
            ELSE /\ err' = (IF \E i \in 1..Len(calls) : calls[i].verb = "build"
                            THEN "ConanException" ELSE err)
                 /\ UNCHANGED << build_tree, pc >>
    /\ UNCHANGED << inputs, options, passes, resolved, requires, export_folder,
                    folders, generated, package_folder, cpp_info >>

\* build(): cmake.build()
BuildBuild ==
    /\ At("build_build")
    /\ \E ok \in BOOLEAN :
         /\ calls' = Append(calls, Call("build", << >>, ok))
         /\ IF ok
            THEN /\ build_tree' = build_tree \cup Artifacts
                 /\ pc' = "build_ctest"
                 /\ err' = err
            ELSE /\ err' = "ConanException"
                 /\ UNCHANGED << build_tree, pc >>
    /\ UNCHANGED << inputs, options, passes, resolved, requires, export_folder,
                    folders, generated, package_folder, cpp_info >>

\* Mutant: the skip flag read with the test inverted
BuildCtestInverted ==
    /\ At("build_ctest")
    /\ IF ConfGet(skip_test, FALSE)
       THEN \E ok \in BOOLEAN :
              /\ calls' = Append(calls, Call("ctest", << "--output-on-failure" >>, ok))
              /\ IF ok THEN pc' = StageAfter("build") /\ err' = err
                       ELSE pc' = pc /\ err' = "ConanException"
       ELSE /\ pc' = StageAfter("build")
            /\ UNCHANGED << calls, err >>
    /\ UNCHANGED << inputs, options, passes, resolved, requires, export_folder,
                    folders, generated, build_tree, package_folder, cpp_info >>

\* Mutant: the build folder cleared when the test run fails
BuildCtestCleans ==
    /\ At("build_ctest")
    /\ IF ~ ConfGet(skip_test, FALSE)
       THEN \E ok \in BOOLEAN :
              /\ calls' = Append(calls, Call("ctest", << "--output-on-failure" >>, ok))
              /\ IF ok THEN /\ pc' = StageAfter("build")
                            /\ UNCHANGED << err, build_tree >>
                       ELSE /\ pc' = pc
                            /\ err' = "ConanException"
                            /\ build_tree' = {}
       ELSE /\ pc' = StageAfter("build")
            /\ UNCHANGED << calls, err, build_tree >>
    /\ UNCHANGED << inputs, options, passes, resolved, requires, export_folder,
                    folders, generated, package_folder, cpp_info >>

\* Mutant: a failing test run caught and ignored
BuildCtestSwallowed ==
    /\ At("build_ctest")
    /\ IF ~ ConfGet(skip_test, FALSE)
       THEN \E ok \in BOOLEAN :
              calls' = Append(calls, Call("ctest", << "--output-on-failure" >>, ok))
       ELSE UNCHANGED calls
    /\ pc' = StageAfter("build")
    /\ UNCHANGED << inputs, options, passes, resolved, requires, export_folder,
                    folders, generated, build_tree, package_folder, cpp_info, err >>

\* build(): if not self.conf.get("tools.build:skip_test", default=False):
\*              cmake.ctest(cli_args=["--output-on-failure"])
BuildCtest ==
    /\ At("build_ctest")
    /\ IF ~ ConfGet(skip_test, FALSE)
       THEN \E ok \in BOOLEAN :
              /\ calls' = Append(calls, Call("ctest", << "--output-on-failure" >>, ok))
              /\ IF ok THEN pc' = StageAfter("build") /\ err' = err
                       ELSE pc' = pc /\ err' = "ConanException"
       ELSE /\ pc' = StageAfter("build")
            /\ UNCHANGED << calls, err >>
    /\ UNCHANGED << inputs, options, passes, resolved, requires, export_folder,
                    folders, generated, build_tree, package_folder, cpp_info >>

\* Mutant: the exit status of the install step not looked at
PackageInstallUnchecked ==
    /\ At("package")
    /\ \E ok \in BOOLEAN :
         /\ calls' = Append(calls, Call("install", << >>, ok))
         /\ package_folder' = (IF ok THEN package_folder \cup build_tree
                                     ELSE package_folder)
    /\ pc' = "package_copy"
    /\ UNCHANGED << inputs, options, passes, resolved, requires, export_folder,
                    folders, generated, build_tree, cpp_info, err >>

\* package(): cmake = CMake(self); cmake.install()
PackageInstall ==
    /\ At("package")
    /\ \E ok \in BOOLEAN :
         /\ calls' = Append(calls, Call("install", << >>, ok))
         /\ IF ok
            THEN /\ package_folder' = package_folder \cup build_tree
                 /\ pc' = "package_copy"
                 /\ err' = err
            ELSE /\ err' = "ConanException"
                 /\ UNCHANGED << package_folder, pc >>
    /\ UNCHANGED << inputs, options, passes, resolved, requires, export_folder,
                    folders, generated, build_tree, cpp_info >>

\* package(): copy(self, "cmake/*", src=self.source_folder, dst=self.package_folder)
PackageCopy ==
    /\ At("package_copy")
    /\ package_folder' = Copy(<< "cmake", "*" >>, SourceFolder, package_folder)
    /\ pc' = StageAfter("package")
    /\ UNCHANGED << inputs, options, passes, resolved, requires, export_folder,
                    folders, generated, calls, build_tree, cpp_info, err >>

\* Mutant: the library named after the linkage
PackageInfoByLinkage ==
    /\ At("package_info")
    /\ cpp_info' = [builddirs         |-> << "cmake" >>,
                    cmake_target_name |-> "ka::common",
                    libs              |-> IF options["shared"]
                                          THEN << "ka_common_shared" >>
                                          ELSE << "ka_common" >>]
    /\ pc' = StageAfter("package_info")
    /\ UNCHANGED << inputs, options, passes, resolved, requires, export_folder,
                    folders, generated, calls, build_tree, package_folder, err >>

\* def package_info(self)
PackageInfo ==
    /\ At("package_info")
    /\ cpp_info' = [builddirs         |-> << "cmake" >>,
                    cmake_target_name |-> "ka::common",
                    libs              |-> << "ka_common" >>]
    /\ pc' = StageAfter("package_info")
    /\ UNCHANGED << inputs, options, passes, resolved, requires, export_folder,
                    folders, generated, calls, build_tree, package_folder, err >>

Next ==
    \/ ConfigOptions
    \/ Configure
    \/ Requirements
    \/ BuildRequirements
    \/ ExportSources
    \/ Validate
    \/ Layout
    \/ GenerateDeps
    \/ GenerateToolchain
    \/ BuildConfigure
    \/ BuildBuild
    \/ BuildCtest
    \/ PackageInstall
    \/ PackageCopy
    \/ PackageInfo

Spec == Init /\ [][Next]_vars

(***************************************************************************)
(* Properties.                                                             *)
(***************************************************************************)
\* config_options followed by configure has run at least once
Resolved == passes >= 1

\* positions in calls at which the verb was invoked
Invoked(verb) == {i \in 1..Len(calls) : calls[i].verb = verb}

BuildSucceeded == \E i \in Invoked("build") : calls[i].ok

NoCppInfo == [builddirs |-> << >>, cmake_target_name |-> "", libs |-> << >>]

\* C1: with os "Windows", whatever shared and fPIC were supplied, the option
\* set has no fPIC key once config_options and configure have run, in that
\* state and in every later one.
C1_WindowsNeverHasFPIC ==
    (os = "Windows" /\ Resolved) => "fPIC" \notin DOMAIN options

C1_Witness ==
    /\ os = "Windows"
    /\ in_fPIC = "True"
    /\ in_shared = "False"
    /\ pc = "done"
    /\ DOMAIN options = {"shared"}

\* C2: with shared supplied true and os other than "Windows", whatever fPIC
\* was supplied, the resolved option set has no fPIC key and shared is true.
C2_SharedNeverHasFPIC ==
    (in_shared = "True" /\ os # "Windows" /\ Resolved) =>
        /\ "fPIC" \notin DOMAIN options
        /\ "shared" \in DOMAIN options
        /\ options["shared"] = TRUE

C2_Witness ==
    /\ in_shared = "True"
    /\ in_fPIC = "True"
    /\ os = "Linux"
    /\ pc = "requirements"
    /\ options = [x \in {"shared"} |-> TRUE]

\* C3: with shared false and os other than "Windows", the resolved option set
\* holds fPIC, true when no value was supplied and the supplied value otherwise.
C3_StaticKeepsFPIC ==
    (in_shared # "True" /\ os # "Windows" /\ Resolved) =>
        /\ "fPIC" \in DOMAIN options
        /\ options["fPIC"] = (IF in_fPIC = "unset" THEN TRUE ELSE in_fPIC = "True")

C3_Witness ==
    /\ in_shared = "False"
    /\ in_fPIC = "False"
    /\ os = "Linux"
    /\ Resolved
    /\ options = [shared |-> FALSE, fPIC |-> FALSE]

\* C4: running config_options and configure again on the option set they
\* produced ends without error in the same option set, keys and values.
C4_ResolutionIdempotent ==
    /\ \A i \in 1..Len(resolved) : resolved[i] = resolved[1]
    /\ (Resolved /\ pc \in {"config_options", "configure"}) => err = "none"

C4_Witness ==
    /\ Len(resolved) = 2
    /\ resolved[1] # InitialOptions(in_shared, in_fPIC)
    /\ resolved[2] = resolved[1]
    /\ pc = "requirements"

\* the statement of build() that runs the tests has been passed or has raised
TestStepOver ==
    \/ pc \in {"package", "package_copy", "package_info", "done"}
    \/ pc = "build_ctest" /\ err # "none"

\* C5: when tools.build:skip_test is unset or false and the build step
\* succeeded, build() invokes the test run exactly once, with
\* --output-on-failure, after the build step; when it is true build() invokes
\* no test run and returns without error.
C5_TestsGatedBySkipFlag ==
    /\ [](/\ (skip_test # "True" /\ BuildSucceeded /\ TestStepOver) =>
                Cardinality(Invoked("ctest")) = 1
          /\ \A i \in Invoked("ctest") :
                /\ calls[i].args = << "--output-on-failure" >>
                /\ \E j \in Invoked("build") : j < i /\ calls[j].ok
          /\ skip_test = "True" => Invoked("ctest") = {})
    /\ [][(pc = "build_ctest" /\ err = "none" /\ skip_test = "True") =>
            (pc' = "package" /\ err' = "none" /\ calls' = calls)]_vars

C5_Witness ==
    /\ skip_test = "unset"
    /\ pc = "done"
    /\ Len(calls) = 4
    /\ calls[3] = Call("ctest", << "--output-on-failure" >>, TRUE)

\* package() has been entered: its first statement has run
PackageEntered ==
    \/ pc \in {"package_copy", "package_info", "done"}
    \/ pc = "package" /\ err # "none"

\* C6: package() called when the build has not reached Built raises a
\* configuration error, invokes no install step and copies nothing into the
\* package folder.
C6_PackageBeforeBuiltRejected ==
    (PackageEntered /\ ~ BuildSucceeded) =>
        /\ err = "ConanInvalidConfiguration"
        /\ Invoked("install") = {}
        /\ package_folder = {}

\* what a consumer of the package is given: the published cpp_info and the
\* requirements that propagate
ConsumerVisible ==
    {cpp_info.builddirs[i] : i \in 1..Len(cpp_info.builddirs)}
        \cup {cpp_info.libs[i] : i \in 1..Len(cpp_info.libs)}
        \cup {cpp_info.cmake_target_name}
        \cup {requires[i].name : i \in {j \in 1..Len(requires) : requires[j].role = "runtime"}}

Declared == pc \notin {"config_options", "configure", "requirements", "build_requirements"}

\* C7: once requirements() and build_requirements() have run the requirement
\* list is fmt 9.1.0 as the one runtime entry and gtest 1.17.0 as the one
\* build/test-only entry, and gtest is never among what consumers are given.
C7_RequirementSpec ==
    /\ Declared =>
         /\ Len(requires) = 2
         /\ {requires[i] : i \in {j \in 1..2 : requires[j].role = "runtime"}} =
                {[name |-> "fmt", version |-> "9.1.0", role |-> "runtime"]}
         /\ {requires[i] : i \in {j \in 1..2 : requires[j].role # "runtime"}} =
                {[name |-> "gtest", version |-> "1.17.0", role |-> "test"]}
    /\ "gtest" \notin ConsumerVisible

C7_Witness ==
    /\ pc = "done"
    /\ Len(requires) = 2
    /\ requires[2].name = "gtest"
    /\ "fmt" \in ConsumerVisible
    /\ "ka_common" \in ConsumerVisible

\* C8: with a language standard below C++20, validate() raises the invalid
\* configuration error, the lifecycle gets no further and no external
\* build-tool verb is ever invoked.
C8_LowStandardIsFatal ==
    cppstd \in {98, 17} =>
        /\ calls = << >>
        /\ pc \in {"config_options", "configure", "requirements",
                   "build_requirements", "export_sources", "validate"}
        /\ err \in {"none", "ConanInvalidConfiguration"}
        /\ err # "none" => pc = "validate"

C8_Witness ==
    /\ cppstd = 98
    /\ pc = "validate"
    /\ err = "ConanInvalidConfiguration"

\* C9: an error ends the lifecycle where it occurs: a verb that exited
\* non-zero is the last one invoked, nothing changes once an exception has
\* been raised, and neither install nor package_info() runs after a failure.
C9_ErrorsHalt ==
    /\ [](/\ \A i \in 1..Len(calls) :
                ~ calls[i].ok => (i = Len(calls) /\ err = "ConanException")
          /\ err # "none" => (pc # "done" /\ cpp_info = NoCppInfo)
          /\ (\E i \in Invoked("install") : TRUE) =>
                \A j \in Invoked("configure") \cup Invoked("build") \cup Invoked("ctest") :
                    calls[j].ok)
    /\ [][err # "none" => UNCHANGED vars]_vars

C9_Witness ==
    /\ err = "ConanException"
    /\ pc = "build_ctest"
    /\ Len(calls) = 3
    /\ ~ calls[3].ok
    /\ package_folder = {}

\* C10: package_info() publishes builddirs ["cmake"], target name
\* "ka::common" and libs ["ka_common"] whatever the settings, options and
\* skip flag, and never raises.
C10_PackageLayoutIsStatic ==
    /\ pc = "done" =>
         /\ cpp_info = [builddirs |-> << "cmake" >>,
                        cmake_target_name |-> "ka::common",
                        libs |-> << "ka_common" >>]
         /\ err = "none"
    /\ pc = "package_info" => err = "none"

C10_Witness ==
    /\ pc = "done"
    /\ os = "Windows"
    /\ in_shared = "True"
    /\ skip_test = "True"
    /\ cpp_info.libs = << "ka_common" >>

\* C11: build() invokes configure, then build, then the test run: build only
\* after a configure that succeeded, the test run only after a build that
\* succeeded; after a failed configure neither build nor test is invoked and
\* after a failed build no test is, whatever the skip flag.
C11_BuildVerbOrder ==
    /\ \A i \in Invoked("build") :
         \E j \in Invoked("configure") : j < i /\ calls[j].ok
    /\ \A i \in Invoked("ctest") :
         /\ \E j \in Invoked("build") : j < i /\ calls[j].ok
         /\ \E j \in Invoked("configure") : j < i /\ calls[j].ok
    /\ (\E j \in Invoked("configure") : ~ calls[j].ok) =>
         (Invoked("build") = {} /\ Invoked("ctest") = {})
    /\ (\E j \in Invoked("build") : ~ calls[j].ok) => Invoked("ctest") = {}

C11_Witness ==
    /\ skip_test = "False"
    /\ Len(calls) = 2
    /\ calls[1] = Call("configure", << >>, TRUE)
    /\ calls[2] = Call("build", << >>, FALSE)
    /\ pc = "build_build"
    /\ err = "ConanException"

\* the test run of build() was invoked and exited non-zero
TestFailed == \E i \in Invoked("ctest") : ~ calls[i].ok

\* C12: a failing test run ends build() with the tool's error and leaves what
\* the build step produced, and what earlier stages produced, as it was
\* before the test run was invoked.
C12_TestFailureKeepsArtifacts ==
    /\ [](TestFailed =>
            /\ err = "ConanException"
            /\ pc = "build_ctest"
            /\ Artifacts \subseteq build_tree)
    /\ [][pc = "build_ctest" =>
            /\ build_tree' = build_tree
            /\ export_folder' = export_folder
            /\ generated' = generated
            /\ options' = options]_vars

C12_Witness ==
    /\ TestFailed
    /\ pc = "build_ctest"
    /\ err = "ConanException"
    /\ build_tree = Artifacts

\* C13: no verb is retried: configure, build, test and install are each
\* invoked at most once in a lifecycle, also when they fail.
C13_NoRetry ==
    \A verb \in {"configure", "build", "ctest", "install"} :
        Cardinality(Invoked(verb)) <= 1

C13_Witness ==
    /\ Len(calls) = 4
    /\ calls[4] = Call("install", << >>, FALSE)
    /\ err = "ConanException"
    /\ pc = "package"

\* C14: generate() writes the dependency descriptors before the toolchain
\* descriptors, both are written before the configure step is invoked, and
\* when the dependency generator fails the toolchain is not generated.
C14_GenerateOrder ==
    /\ generated \in {<< >>, << "CMakeDeps" >>, << "CMakeDeps", "CMakeToolchain" >>}
    /\ Invoked("configure") # {} => generated = << "CMakeDeps", "CMakeToolchain" >>
    /\ (pc = "generate" /\ err # "none") => generated = << >>
    /\ pc = "generate_tc" => generated = << "CMakeDeps" >>

C14_Witness ==
    /\ generated = << "CMakeDeps", "CMakeToolchain" >>
    /\ Len(calls) = 1
    /\ calls[1].verb = "configure"

\* the stages from generate() onward
FromGenerate ==
    {"generate", "generate_tc", "build", "build_build", "build_ctest",
     "package", "package_copy", "package_info", "done"}

\* C15: only config_options and configure change the option set: from the
\* start of generate() onward the options are those configure ended with, and
\* no step of generate, build, package or package_info changes them.
C15_OptionsFrozen ==
    /\ [](pc \in FromGenerate =>
            (Len(resolved) >= 1 /\ options = resolved[Len(resolved)]))
    /\ [][pc \notin {"config_options", "configure"} => options' = options]_vars

C15_Witness ==
    /\ pc = "done"
    /\ options = resolved[Len(resolved)]
    /\ options # InitialOptions(in_shared, in_fPIC)
    /\ Len(generated) = 2
    /\ Len(calls) = 4

\* files of the package folder that the copy of cmake/* put there
CopiedSupport == {f \in package_folder : Matches(<< "cmake", "*" >>, f)}

InstallSucceeded == \E i \in Invoked("install") : calls[i].ok

\* C16: package() invokes the install step first and copies cmake/ into the
\* package folder only after install succeeded; when install exits non-zero
\* nothing is copied.
C16_InstallBeforeCopy ==
    /\ CopiedSupport # {} => InstallSucceeded
    /\ pc \in {"package_copy", "package_info", "done"} => InstallSucceeded
    /\ (\E i \in Invoked("install") : ~ calls[i].ok) =>
         /\ package_folder = {}
         /\ pc = "package"
         /\ err = "ConanException"
    /\ pc = "package_copy" => CopiedSupport = {}

C16_Witness ==
    /\ pc = "package_info"
    /\ InstallSucceeded
    /\ CopiedSupport = {<< "cmake", "ka_common-config.cmake" >>}
    /\ Artifacts \subseteq package_folder

\* export_sources() has run: it returned or it raised
ExportRan ==
    \/ pc \notin {"config_options", "configure", "requirements",
                  "build_requirements", "export_sources"}
    \/ pc = "export_sources" /\ err # "none"

\* C17: when one of the four declared export paths is missing from the recipe
\* folder, export_sources() ends in a fatal error instead of completing with
\* fewer files exported.
C17_MissingPathIsFatal ==
    (ExportRan /\ DeclaredFiles \ recipe_folder # {}) =>
        (pc = "export_sources" /\ err # "none")

\* C18: with os "Windows" and shared true, config_options removes fPIC,
\* configure removes it again though it is absent, and the two end without
\* error with fPIC absent and shared still true.
C18_RemovalOfAbsentIsSilent ==
    (os = "Windows" /\ in_shared = "True") =>
        /\ pc \in {"config_options", "configure"} => err = "none"
        /\ pc = "configure" => options = [x \in {"shared"} |-> TRUE]
        /\ Resolved => options = [x \in {"shared"} |-> TRUE]

C18_Witness ==
    /\ os = "Windows"
    /\ in_shared = "True"
    /\ passes = 1
    /\ pc = "requirements"
    /\ err = "none"
    /\ "fPIC" \notin DOMAIN options
    /\ options["shared"]

\* C19: option resolution only removes fPIC: shared keeps the supplied value,
\* or the default false, and an fPIC that is still present keeps the supplied
\* value, or the default true; no step adds an option.
C19_ResolutionOnlyNarrows ==
    /\ [](/\ "shared" \in DOMAIN options
          /\ options["shared"] = (in_shared = "True")
          /\ DOMAIN options \subseteq {"shared", "fPIC"}
          /\ "fPIC" \in DOMAIN options => options["fPIC"] = (in_fPIC # "False"))
    /\ [][DOMAIN options' \subseteq DOMAIN options]_vars

C19_Witness ==
    /\ os = "Macos"
    /\ in_shared = "unset"
    /\ in_fPIC = "False"
    /\ pc = "done"
    /\ passes = 2
    /\ options = [shared |-> FALSE, fPIC |-> FALSE]

====
